---- MODULE Spec2Model ----
(***************************************************************************)
(* dingus-aid: a command-line assistant.  One invocation initialises the   *)
(* configuration directory, loads (or asks for and saves) the API key,     *)
(* sends one chat-completion request, shows the suggested command, reads   *)
(* one confirmation line and runs the command, copies it, or does nothing. *)
(*                                                                         *)
(* The repository holds two builds of the program: src/dingus-aid.go keeps *)
(* a local []Entry list (variant "Entry"), src/unnamed/part_000 keeps a    *)
(* global CommandHistory (variant "CommandHistory").  The file system      *)
(* outlives the invocations; everything else is per process.               *)
(*                                                                         *)
(* A Go string is modelled as a sequence of atoms: an atom is a run of     *)
(* non-blank bytes (a word) or one blank byte.                             *)
(***************************************************************************)
EXTENDS Integers, Sequences, FiniteSets, TLC

VARIABLES
    variant,           \* which build runs: "Entry" or "CommandHistory"
    dirExists,         \* ~/.dingus-aid exists
    cfgFile,           \* ~/.dingus-aid/config.json: [exists, data]
    pc,                \* position of the running process in main
    args,              \* os.Args[1:]
    openaiAPIKey,      \* the global openaiAPIKey
    query,             \* main's query
    suggestedCommand,  \* main's suggestedCommand
    confirm,           \* main's confirm, after normalisation
    history,           \* main's history / the global history.Entries
    exitCode,          \* -1 while running, else the process's exit status
    loadResult,        \* what loadAPIKey returned to this process
    keyPrompts,        \* "Enter your OpenAI API Key: " prompts printed
    httpRequests,      \* requests handed to client.Do
    sentKey,           \* the key in the Authorization header of the request
    sentContext,       \* the history context formatted into the prompt
    sentPrompt,        \* the prompt of the request
    apiStatus,         \* HTTP status of the response (0: none)
    apiAnswer,         \* which of ApiResponses came back (0: none)
    confirmPrompts,    \* "Do you want to run this command?" prompts printed
    confirmLine,       \* the line read at the confirmation prompt
    shellRuns,         \* runCommand calls
    cmdOutput,         \* what runCommand returned: [output, err]
    clipCopies,        \* copyToClipboard calls
    clipErr,           \* copyToClipboard returned an error
    stdout,            \* the messages printed, in order
    fatal,             \* the log.Fatalf message, "" if none
    runs,              \* invocations started so far
    recorded,          \* what earlier invocations appended to their history
    added,             \* every add made to the tracker, in order
    storeLog,          \* the last operation on the configuration store
    racers,            \* two invocations saving a key at once: [pc, key] each
    wrote              \* the racers in the order their writes were done

fsVars == <<dirExists, cfgFile, storeLog>>
procVars == <<args, openaiAPIKey, query, suggestedCommand, confirm, history,
              loadResult>>
keyVars == <<keyPrompts>>
httpVars == <<httpRequests, sentKey, sentContext, sentPrompt, apiStatus,
              apiAnswer>>
confirmVars == <<confirmPrompts, confirmLine>>
dispatchVars == <<shellRuns, cmdOutput, clipCopies, clipErr>>
ghostVars == <<runs, recorded, added>>
raceVars == <<racers, wrote>>
vars == <<variant, dirExists, cfgFile, pc, args, openaiAPIKey, query,
          suggestedCommand, confirm, history, exitCode, loadResult,
          keyPrompts, httpRequests, sentKey, sentContext, sentPrompt,
          apiStatus, apiAnswer, confirmPrompts, confirmLine, shellRuns, cmdOutput,
          clipCopies, clipErr, stdout, fatal, runs, recorded, added,
          storeLog, racers, wrote>>

(***************************************************************************)
(* Bounds of the model.                                                    *)
(***************************************************************************)
MaxRuns == 3
MaxAdds == 10
MaxEntries == 7
ExtraWords == 1

(***************************************************************************)
(* Program constants.                                                      *)
(***************************************************************************)
MaxSize == 8
MaxWords == 160
EntryLimit == 5
ContextWords == 100
StatusOK == 200

Variants == {"Entry", "CommandHistory"}

(***************************************************************************)
(* Strings.                                                                *)
(***************************************************************************)
SP == " "
NL == "\n"
TAB == "\t"
Whitespace == {SP, NL, TAB}
\* A byte that is not valid UTF-8, and U+FFFD, the replacement rune.
BadByte == "\\xff"
ReplacementChar == "U+FFFD"
Quote == "\""

RECURSIVE TrimLeft(_)
TrimLeft(s) ==
    IF s # <<>> /\ Head(s) \in Whitespace THEN TrimLeft(Tail(s)) ELSE s

RECURSIVE TrimRight(_)
TrimRight(s) ==
    IF s # <<>> /\ s[Len(s)] \in Whitespace
    THEN TrimRight(SubSeq(s, 1, Len(s) - 1))
    ELSE s

\* strings.TrimSpace
TrimSpace(s) == TrimRight(TrimLeft(s))

\* strings.ToLower, on the atoms the inputs are made of
LowerAtom(a) ==
    CASE a = "Y" -> "y"
      [] a = "C" -> "c"
      [] a = "N" -> "n"
      [] a = "YES" -> "yes"
      [] OTHER -> a

ToLower(s) == [i \in DOMAIN s |-> LowerAtom(s[i])]

\* strings.Fields: the maximal runs of non-blank bytes
Fields(s) == SelectSeq(s, LAMBDA a : a \notin Whitespace)

\* strings.Join
Join(words, sep) ==
    IF words = <<>> THEN <<>>
    ELSE LET unit == 1 + Len(sep) IN
         [i \in 1..((Len(words) - 1) * unit + 1) |->
            IF (i - 1) % unit = 0 THEN words[((i - 1) \div unit) + 1]
            ELSE sep[(i - 1) % unit]]

\* the last n elements of s
LastN(s, n) == IF Len(s) <= n THEN s ELSE SubSeq(s, Len(s) - n + 1, Len(s))

\* n words, each ended by a newline: the output of a command
Text(n) == [i \in 1..(2 * n) |->
              IF i % 2 = 1 THEN "w" \o ToString((i + 1) \div 2) ELSE NL]

(***************************************************************************)
(* The history trackers.                                                   *)
(***************************************************************************)
\* a variant of the eviction that cuts the list at its tail
EvictNewest(h) ==
    IF Len(h) > EntryLimit THEN SubSeq(h, 1, EntryLimit) ELSE h

\* for len(history) > 5 { history = history[1:] }
RECURSIVE EvictOldest(_)
EvictOldest(h) ==
    IF Len(h) > EntryLimit THEN EvictOldest(Tail(h)) ELSE h

\* a variant of the append that strips the output before storing it
EntryAddTrimmed(h, q, output) ==
    EvictOldest(Append(h, [Query |-> q, Response |-> TrimSpace(output)]))

\* history = append(history, Entry{Query: query, Response: output}) and the
\* eviction that follows it
EntryAdd(h, q, output) ==
    EvictOldest(Append(h, [Query |-> q, Response |-> output]))

\* a variant of the trimming that keeps the leading words
TrimOutputLeading(output) ==
    LET words == Fields(output) IN
    IF Len(words) > MaxWords
    THEN Join(SubSeq(words, 1, MaxWords), <<SP>>)
    ELSE output

\* CommandHistory.Add: the output trimmed to its last MaxWords words
TrimOutput(output) ==
    LET words == Fields(output) IN
    IF Len(words) > MaxWords
    THEN Join(SubSeq(words, Len(words) - MaxWords + 1, Len(words)), <<SP>>)
    ELSE output

\* CommandHistory.Add: h.Entries after the call
KeepRecent(entries) ==
    IF Len(entries) > MaxSize
    THEN SubSeq(entries, Len(entries) - MaxSize + 1, Len(entries))
    ELSE entries

CommandHistoryAdd(h, command, output) ==
    KeepRecent(Append(h, [Command |-> command, Output |-> TrimOutput(output)]))

\* what the "y" branch of main does to the history
HistoryAdd(v, h, q, command, output) ==
    IF v = "Entry" THEN EntryAdd(h, q, output)
    ELSE CommandHistoryAdd(h, command, output)

\* a variant of the truncation that keeps the first 100 words
TruncateKeepingLeading(context) ==
    LET words == Fields(context) IN
    IF Len(words) <= ContextWords THEN context
    ELSE Join(SubSeq(words, 1, ContextWords), <<SP>>)

\* truncateHistoryContext
TruncateHistoryContext(context) ==
    LET words == Fields(context) IN
    IF Len(words) <= ContextWords THEN context
    ELSE Join(SubSeq(words, Len(words) - ContextWords + 1, Len(words)), <<SP>>)

\* getCommandSuggestion (Entry): the context of the last 5 entries
RECURSIVE EntryLines(_, _)
EntryLines(h, i) ==
    IF i > Len(h) THEN <<>>
    ELSE <<"User:", SP>> \o h[i].Query \o <<NL, "Bot:", SP>> \o h[i].Response
         \o <<NL>> \o EntryLines(h, i + 1)

EntryContext(h) ==
    LET startIdx == IF Len(h) > EntryLimit THEN Len(h) - EntryLimit ELSE 0
    IN TruncateHistoryContext(EntryLines(h, startIdx + 1))

\* CommandHistory.GetContext
RECURSIVE CommandLines(_, _)
CommandLines(h, i) ==
    IF i > Len(h) THEN <<>>
    ELSE <<NL, "COMMAND", SP, ToString(i) \o ":", SP>> \o h[i].Command
         \o <<NL, "OUTPUT", SP, ToString(i) \o ":", SP>> \o h[i].Output
         \o <<NL>> \o CommandLines(h, i + 1)

GetContext(h) ==
    IF Len(h) = 0 THEN <<>>
    ELSE <<NL, NL, "Recent command history (for context):", NL>>
         \o CommandLines(h, 1)

HistoryContext(v, h) == IF v = "Entry" THEN EntryContext(h) ELSE GetContext(h)

(***************************************************************************)
(* The prompt.  The fixed text of the template is kept as whole atoms.     *)
(***************************************************************************)
HistoryLabel == "Here is the history of the current CLI session:"
CommandHistoryLabel == "The command line history is as follows:"
Rules == "Always adhere to these rules when suggesting the command: ..."
Format == "Format your response as follows: ..."
QueryLabel == "The user query is as follows:"
Cue == "Suggested command:"

BuildPrompt(v, context, q) ==
    IF v = "Entry"
    THEN <<NL, HistoryLabel, NL, NL, "<HISTORY>", SP>> \o context
         \o <<SP, "</HISTORY>", NL, NL, Rules, NL, NL, Format, NL, NL,
              QueryLabel, NL, NL, "<USER_QUESTION>", SP>> \o q
         \o <<SP, "</USER_QUESTION>", NL, NL, Cue>>
    ELSE <<NL, Rules, NL, NL, Format, NL, NL, CommandHistoryLabel, NL, NL,
           "<COMMAND_HISTORY>", SP>> \o context
         \o <<SP, "</COMMAND_HISTORY>", NL, NL, QueryLabel, NL, NL,
              "<USER_QUESTION>", SP>> \o q
         \o <<SP, "</USER_QUESTION>", NL, NL, Cue>>

(***************************************************************************)
(* The configuration store.  The file holds the JSON text that            *)
(* json.MarshalIndent writes for map[string]string{"OPENAI_API_KEY": key}. *)
(***************************************************************************)
NoFile == [exists |-> FALSE, data |-> <<>>]
\* a file that os.WriteFile opened (and so truncated) and could not write
EmptyFile == [exists |-> TRUE, data |-> <<>>]

\* encoding/json writes a string as valid UTF-8: an invalid byte becomes
\* U+FFFD, a quote and a control character are escaped
EscapeAtom(a) ==
    CASE a = BadByte -> "\\ufffd"
      [] a = Quote -> "\\\""
      [] a = TAB -> "\\t"
      [] OTHER -> a

UnescapeAtom(t) ==
    CASE t = "\\ufffd" -> ReplacementChar
      [] t = "\\\"" -> Quote
      [] t = "\\t" -> TAB
      [] OTHER -> t

ConfigPrefix == <<"{", Quote, "OPENAI_API_KEY", Quote, ":", Quote>>
ConfigSuffix == <<Quote, "}">>

\* json.MarshalIndent(configData, "", "  ")
MarshalConfig(apiKey) ==
    ConfigPrefix \o [i \in DOMAIN apiKey |-> EscapeAtom(apiKey[i])]
    \o ConfigSuffix

\* a variant of the decoding that leaves the escapes of the value as written
UnmarshalConfigRaw(data) ==
    IF /\ Len(data) >= Len(ConfigPrefix) + Len(ConfigSuffix)
       /\ SubSeq(data, 1, Len(ConfigPrefix)) = ConfigPrefix
       /\ SubSeq(data, Len(data) - 1, Len(data)) = ConfigSuffix
    THEN [err |-> "", key |-> SubSeq(data, Len(ConfigPrefix) + 1, Len(data) - 2)]
    ELSE [err |-> "json", key |-> <<>>]

\* json.Unmarshal(data, &configData) and the lookup of OPENAI_API_KEY
UnmarshalConfig(data) ==
    IF /\ Len(data) >= Len(ConfigPrefix) + Len(ConfigSuffix)
       /\ SubSeq(data, 1, Len(ConfigPrefix)) = ConfigPrefix
       /\ SubSeq(data, Len(data) - 1, Len(data)) = ConfigSuffix
    THEN LET body == SubSeq(data, Len(ConfigPrefix) + 1, Len(data) - 2)
         IN [err |-> "", key |-> [i \in DOMAIN body |-> UnescapeAtom(body[i])]]
    ELSE [err |-> "json", key |-> <<>>]

\* loadAPIKey: readOk is whether os.ReadFile succeeds
LoadAPIKey(file, readOk) ==
    IF ~file.exists THEN [err |-> "API key not found", key |-> <<>>]
    ELSE IF ~readOk THEN [err |-> "read", key |-> <<>>]
    ELSE UnmarshalConfig(file.data)

\* a variant of the test that asks for a key on every run
AlwaysNeedsKey(r) == TRUE

\* main: err != nil || openaiAPIKey == ""
NeedsKey(r) == r.err # "" \/ r.key = <<>>

(***************************************************************************)
(* The completion API.  A JSON value is [t, v]: t its type, v its value.   *)
(***************************************************************************)
JStr(s) == [t |-> "str", v |-> s]
JNum(n) == [t |-> "num", v |-> n]
JArr(a) == [t |-> "arr", v |-> a]
JObj(o) == [t |-> "obj", v |-> o]
JBad == [t |-> "bad", v |-> 0]

Completion(content) ==
    JObj([choices |-> JArr(<<JObj([message |-> JObj([content |-> content])])>>)])

Response(status, body) == [transport |-> FALSE, status |-> status, body |-> body]

\* what the network and the API may answer
ApiResponses ==
    << [transport |-> TRUE, status |-> 0, body |-> JBad],
       Response(429, JObj([error |-> JStr(<<"rate", SP, "limit">>)])),
       Response(500, JBad),
       Response(StatusOK, JBad),
       Response(StatusOK, JObj([error |-> JStr(<<"none">>)])),
       Response(StatusOK, JObj([choices |-> JArr(<<>>)])),
       Response(StatusOK, JObj([choices |-> JStr(<<"x">>)])),
       Response(StatusOK, JObj([choices |-> JArr(<<JStr(<<"x">>)>>)])),
       Response(StatusOK, JObj([choices |-> JArr(<<JObj([index |-> JNum(0)])>>)])),
       Response(StatusOK, Completion(JNum(5))),
       Response(StatusOK, Completion(JStr(<<SP, "ls", SP, "-la", SP>>))),
       Response(StatusOK, Completion(JStr(<<"pwd", NL>>))),
       Response(StatusOK, JObj([choices |-> JArr(<<JObj([message |-> JStr(<<"x">>)])>>)])),
       Response(StatusOK, JObj([choices |->
           JArr(<<JObj([message |-> JObj([role |-> JStr(<<"assistant">>)])])>>)])),
       Response(StatusOK, Completion(JStr(<<SP, NL>>))) >>

Failed(msg) == [err |-> msg, text |-> <<>>]

\* a variant of the chain that returns the content as it came
ExtractContentUntrimmed(result) ==
    IF "choices" \in DOMAIN result.v /\ result.v.choices.t = "arr"
       /\ Len(result.v.choices.v) > 0
    THEN LET choice == result.v.choices.v[1] IN
         IF choice.t = "obj" /\ "message" \in DOMAIN choice.v
            /\ choice.v.message.t = "obj"
            /\ "content" \in DOMAIN choice.v.message.v
            /\ choice.v.message.v.content.t = "str"
         THEN [err |-> "", text |-> choice.v.message.v.content.v]
         ELSE Failed("no valid response from OpenAI API")
    ELSE Failed("no valid response from OpenAI API")

\* getCommandSuggestion: the chain of type assertions on the decoded body
ExtractContent(result) ==
    IF "choices" \in DOMAIN result.v /\ result.v.choices.t = "arr"
       /\ Len(result.v.choices.v) > 0
    THEN LET choice == result.v.choices.v[1] IN
         IF choice.t = "obj" /\ "message" \in DOMAIN choice.v
            /\ choice.v.message.t = "obj"
            /\ "content" \in DOMAIN choice.v.message.v
            /\ choice.v.message.v.content.t = "str"
         THEN [err |-> "", text |-> TrimSpace(choice.v.message.v.content.v)]
         ELSE Failed("no valid response from OpenAI API")
    ELSE Failed("no valid response from OpenAI API")

\* a variant of the client that does not look at the status
SuggestionIgnoringStatus(resp) ==
    IF resp.transport THEN Failed("transport")
    ELSE IF resp.body.t # "obj" THEN Failed("decode")
    ELSE ExtractContent(resp.body)

\* getCommandSuggestion: from the answer of client.Do to the return value
SuggestionResult(resp) ==
    IF resp.transport THEN Failed("transport")
    ELSE IF resp.status # StatusOK THEN Failed("error from OpenAI API")
    ELSE IF resp.body.t # "obj" THEN Failed("decode")
    ELSE ExtractContent(resp.body)

(***************************************************************************)
(* The inputs of an invocation.                                            *)
(***************************************************************************)
ArgVectors == {<<>>, <<"cleanup">>, <<"list", "files">>, <<"pwd">>}
KeyLines == {<<NL>>, <<"sk-1", NL>>, <<SP, "sk-2", SP, NL>>, <<BadByte, NL>>}
ConfirmLines ==
    {<<"y", NL>>, <<"Y", NL>>, <<SP, "y", SP, NL>>, <<"c", NL>>, <<"C", NL>>,
     <<"n", NL>>, <<NL>>, <<"yes", NL>>}
CommandOutputs ==
    {<<>>, <<"file1", NL, "file2", NL>>, Text(MaxWords),
     Text(MaxWords + ExtraWords)}
Platforms == {"darwin", "linux", "windows", "plan9"}

\* a variant of the normalisation that keeps the case
NormalizeKeepingCase(line) == TrimSpace(line)

\* main: confirm = strings.TrimSpace(strings.ToLower(confirm))
NormalizeConfirm(line) == TrimSpace(ToLower(line))

(***************************************************************************)
(* The state after construction: nothing installed, no process running.    *)
(***************************************************************************)
NoOutput == [output |-> <<>>, err |-> FALSE]
NoStoreOp == [last |-> "none", key |-> <<>>, afterErase |-> FALSE, erases |-> 0]

\* the two invocations of the race, and no race going on
Racers == {1, 2}
NoRace == [p \in Racers |-> [pc |-> "none", key |-> <<>>]]

ProcessStart ==
    /\ openaiAPIKey = <<>>
    /\ query = <<>>
    /\ suggestedCommand = <<>>
    /\ confirm = <<>>
    /\ history = <<>>
    /\ exitCode = -1
    /\ loadResult = [err |-> "", key |-> <<>>]
    /\ keyPrompts = 0
    /\ httpRequests = 0
    /\ sentKey = <<>>
    /\ sentContext = <<>>
    /\ sentPrompt = <<>>
    /\ apiStatus = 0
    /\ apiAnswer = 0
    /\ confirmPrompts = 0
    /\ confirmLine = <<>>
    /\ shellRuns = 0
    /\ cmdOutput = NoOutput
    /\ clipCopies = 0
    /\ clipErr = FALSE
    /\ stdout = <<>>
    /\ fatal = ""
    /\ added = <<>>

\* the same values, given to a process that starts
FreshProcess ==
    /\ openaiAPIKey' = <<>>
    /\ query' = <<>>
    /\ suggestedCommand' = <<>>
    /\ confirm' = <<>>
    /\ history' = <<>>
    /\ exitCode' = -1
    /\ loadResult' = [err |-> "", key |-> <<>>]
    /\ keyPrompts' = 0
    /\ httpRequests' = 0
    /\ sentKey' = <<>>
    /\ sentContext' = <<>>
    /\ sentPrompt' = <<>>
    /\ apiStatus' = 0
    /\ apiAnswer' = 0
    /\ confirmPrompts' = 0
    /\ confirmLine' = <<>>
    /\ shellRuns' = 0
    /\ cmdOutput' = NoOutput
    /\ clipCopies' = 0
    /\ clipErr' = FALSE
    /\ stdout' = <<>>
    /\ fatal' = ""
    /\ added' = <<>>

Init ==
    /\ variant \in Variants
    /\ dirExists = FALSE
    /\ cfgFile = NoFile
    /\ storeLog = NoStoreOp
    /\ pc = "idle"
    /\ args = <<>>
    /\ runs = 0
    /\ recorded = <<>>
    /\ racers = NoRace
    /\ wrote = <<>>
    /\ ProcessStart

(***************************************************************************)
(* main, one action per step between two inputs.                           *)
(***************************************************************************)
\* a process end that prints the message and returns from main, status 0
ExitWithoutStatus(code, msg) ==
    /\ pc' = "exited"
    /\ exitCode' = 0
    /\ fatal' = msg

\* log.Fatalf and os.Exit(1)
Exit(code, msg) ==
    /\ pc' = "exited"
    /\ exitCode' = code
    /\ fatal' = msg

\* the shell starts the program: a fresh process, an empty history
Start ==
    /\ pc \in {"idle", "exited"}
    /\ runs < MaxRuns
    /\ runs' = runs + 1
    /\ \E a \in ArgVectors : args' = a
    /\ pc' = "init"
    /\ FreshProcess
    /\ UNCHANGED <<variant, raceVars, fsVars, recorded>>

\* initConfigFiles, and main's log.Fatalf when it fails
InitConfigFiles ==
    /\ pc = "init"
    /\ \E homeOk \in BOOLEAN, mkdirOk \in BOOLEAN :
         IF ~homeOk
         THEN /\ Exit(1, "Error initialising config: failed to get home directory")
              /\ UNCHANGED fsVars
         ELSE IF ~mkdirOk
         THEN /\ Exit(1, "Error initialising config: failed to create config directory")
              /\ UNCHANGED fsVars
         ELSE /\ dirExists' = TRUE
              /\ pc' = "args"
              /\ UNCHANGED <<cfgFile, storeLog, exitCode, fatal>>
    /\ UNCHANGED <<variant, raceVars, procVars, keyVars, httpVars, confirmVars,
                   dispatchVars, stdout, ghostVars>>

IsCleanup(a) == Len(a) >= 1 /\ a[1] = "cleanup"

\* the cleanup with os.Remove(configFile) in place of os.RemoveAll(configDir):
\* the directory stays, and a file that is not there is an error
CleanupFileOnly ==
    /\ pc = "args"
    /\ IsCleanup(args)
    /\ \E removeOk \in BOOLEAN :
         IF removeOk /\ cfgFile.exists
         THEN /\ dirExists' = TRUE
              /\ cfgFile' = NoFile
              /\ storeLog' = [last |-> "erase", key |-> <<>>, afterErase |-> FALSE,
                              erases |-> storeLog.erases + 1]
              /\ stdout' = Append(stdout, "Configuration files removed successfully!")
              /\ Exit(0, "")
         ELSE /\ dirExists' = TRUE
              /\ cfgFile' = cfgFile
              /\ storeLog' = [last |-> IF removeOk THEN "missing" ELSE "erasefail",
                              key |-> <<>>, afterErase |-> FALSE, erases |-> 0]
              /\ stdout' = stdout
              /\ Exit(1, "Error cleaning up config files")
    /\ UNCHANGED <<variant, raceVars, procVars, keyVars, httpVars, confirmVars,
                   dispatchVars, ghostVars>>

\* main: the cleanup command; os.RemoveAll may fail part of the way
\* ("erasefail": the system failed the removal)
Cleanup ==
    /\ pc = "args"
    /\ IsCleanup(args)
    /\ \E removeOk \in BOOLEAN :
         IF removeOk
         THEN /\ dirExists' = FALSE
              /\ cfgFile' = NoFile
              /\ storeLog' = [last |-> "erase", key |-> <<>>, afterErase |-> FALSE,
                              erases |-> storeLog.erases + 1]
              /\ stdout' = Append(stdout, "Configuration files removed successfully!")
              /\ Exit(0, "")
         ELSE /\ dirExists' = TRUE
              /\ cfgFile' \in {cfgFile, NoFile}
              /\ storeLog' = [last |-> "erasefail", key |-> <<>>, afterErase |-> FALSE,
                              erases |-> 0]
              /\ stdout' = stdout
              /\ Exit(1, "Error cleaning up config files")
    /\ UNCHANGED <<variant, raceVars, procVars, keyVars, httpVars, confirmVars,
                   dispatchVars, ghostVars>>

\* main: no argument
Usage ==
    /\ pc = "args"
    /\ Len(args) < 1
    /\ stdout' = Append(stdout, "Usage:")
    /\ Exit(1, "")
    /\ UNCHANGED <<variant, raceVars, fsVars, procVars, keyVars, httpVars, confirmVars,
                   dispatchVars, ghostVars>>

\* main: the query joined, the key loaded, the key prompt printed if needed
LoadKey ==
    /\ pc = "args"
    /\ ~IsCleanup(args)
    /\ Len(args) >= 1
    /\ query' = Join(args, <<SP>>)
    /\ \E readOk \in BOOLEAN :
         LET r == LoadAPIKey(cfgFile, readOk) IN
         /\ loadResult' = r
         /\ openaiAPIKey' = r.key
         /\ IF NeedsKey(r)
            THEN /\ pc' = "askKey"
                 /\ keyPrompts' = keyPrompts + 1
                 /\ stdout' = Append(stdout, "Enter your OpenAI API Key: ")
            ELSE /\ pc' = "suggest"
                 /\ UNCHANGED <<keyPrompts, stdout>>
    /\ UNCHANGED <<variant, raceVars, fsVars, args, suggestedCommand, confirm, history,
                   exitCode, fatal, httpVars, confirmVars, dispatchVars,
                   ghostVars>>

\* os.WriteFile(configFile, configJSON, 0600): the file on success, and what
\* a failed write may leave
WriteFile(file, data, writeOk) ==
    IF writeOk THEN {[exists |-> TRUE, data |-> data]} ELSE {file, EmptyFile}

\* main: the key read from the terminal, trimmed and saved
EnterKey ==
    /\ pc = "askKey"
    /\ \/ /\ Exit(1, "Error reading API key")
          /\ UNCHANGED <<openaiAPIKey, cfgFile, storeLog, stdout>>
       \/ \E line \in KeyLines, writeOk \in BOOLEAN :
            /\ openaiAPIKey' = TrimSpace(line)
            /\ cfgFile' \in WriteFile(cfgFile, MarshalConfig(TrimSpace(line)), writeOk)
            /\ storeLog' = [last |-> IF writeOk THEN "save" ELSE "savefail",
                            key |-> TrimSpace(line),
                            afterErase |-> storeLog.last = "erase",
                            erases |-> 0]
            /\ IF writeOk
               THEN /\ stdout' = Append(stdout, "API key saved.")
                    /\ pc' = "suggest"
                    /\ UNCHANGED <<exitCode, fatal>>
               ELSE /\ stdout' = stdout
                    /\ Exit(1, "Error saving API key")
    /\ UNCHANGED <<variant, raceVars, dirExists, args, query, suggestedCommand, confirm,
                   history, loadResult, keyVars, httpVars, confirmVars,
                   dispatchVars, ghostVars>>

\* the suggestion step with the copy that main has commented out: the
\* command is copied as soon as it is shown
SuggestWithAutoCopy ==
    /\ pc = "suggest"
    /\ \E i \in DOMAIN ApiResponses :
         LET resp == ApiResponses[i]
             context == HistoryContext(variant, history)
             r == SuggestionResult(resp)
         IN /\ httpRequests' = httpRequests + 1
            /\ sentKey' = openaiAPIKey
            /\ sentContext' = context
            /\ sentPrompt' = BuildPrompt(variant, context, query)
            /\ apiStatus' = resp.status
            /\ apiAnswer' = i
            /\ IF r.err = ""
               THEN /\ suggestedCommand' = r.text
                    /\ stdout' = Append(stdout, "Suggested command:")
                    /\ confirmPrompts' = confirmPrompts + 1
                    /\ clipCopies' = clipCopies + 1
                    /\ pc' = "confirm"
                    /\ UNCHANGED <<exitCode, fatal>>
               ELSE /\ Exit(1, "Error getting command suggestion: " \o r.err)
                    /\ UNCHANGED <<suggestedCommand, stdout, confirmPrompts,
                                   clipCopies>>
    /\ UNCHANGED <<variant, raceVars, fsVars, args, openaiAPIKey, query, confirm,
                   history, loadResult, keyVars, confirmLine, shellRuns,
                   cmdOutput, clipErr, ghostVars>>

\* the suggestion step sending the request again after a failure
SuggestWithRetry ==
    /\ pc = "suggest"
    /\ \E i \in DOMAIN ApiResponses :
         LET resp == ApiResponses[i]
             context == HistoryContext(variant, history)
             r == SuggestionResult(resp)
         IN /\ httpRequests' = httpRequests + (IF r.err = "" THEN 1 ELSE 2)
            /\ sentKey' = openaiAPIKey
            /\ sentContext' = context
            /\ sentPrompt' = BuildPrompt(variant, context, query)
            /\ apiStatus' = resp.status
            /\ apiAnswer' = i
            /\ IF r.err = ""
               THEN /\ suggestedCommand' = r.text
                    /\ stdout' = Append(stdout, "Suggested command:")
                    /\ confirmPrompts' = confirmPrompts + 1
                    /\ pc' = "confirm"
                    /\ UNCHANGED <<exitCode, fatal>>
               ELSE /\ Exit(1, "Error getting command suggestion: " \o r.err)
                    /\ UNCHANGED <<suggestedCommand, stdout, confirmPrompts>>
    /\ UNCHANGED <<variant, raceVars, fsVars, args, openaiAPIKey, query, confirm,
                   history, loadResult, keyVars, confirmLine, dispatchVars,
                   ghostVars>>

\* getCommandSuggestion and main up to the confirmation prompt
Suggest ==
    /\ pc = "suggest"
    /\ \E i \in DOMAIN ApiResponses :
         LET resp == ApiResponses[i]
             context == HistoryContext(variant, history)
             r == SuggestionResult(resp)
         IN /\ httpRequests' = httpRequests + 1
            /\ sentKey' = openaiAPIKey
            /\ sentContext' = context
            /\ sentPrompt' = BuildPrompt(variant, context, query)
            /\ apiStatus' = resp.status
            /\ apiAnswer' = i
            /\ IF r.err = ""
               THEN /\ suggestedCommand' = r.text
                    /\ stdout' = Append(stdout, "Suggested command:")
                    /\ confirmPrompts' = confirmPrompts + 1
                    /\ pc' = "confirm"
                    /\ UNCHANGED <<exitCode, fatal>>
               ELSE /\ Exit(1, "Error getting command suggestion: " \o r.err)
                    /\ UNCHANGED <<suggestedCommand, stdout, confirmPrompts>>
    /\ UNCHANGED <<variant, raceVars, fsVars, args, openaiAPIKey, query, confirm,
                   history, loadResult, keyVars, confirmLine, dispatchVars,
                   ghostVars>>

\* main: the confirmation read from the terminal
ReadConfirm ==
    /\ pc = "confirm"
    /\ \/ /\ Exit(1, "Error reading confirmation")
          /\ UNCHANGED <<confirm, confirmLine>>
       \/ \E line \in ConfirmLines :
            /\ confirmLine' = line
            /\ confirm' = NormalizeConfirm(line)
            /\ pc' = "dispatch"
            /\ UNCHANGED <<exitCode, fatal>>
    /\ UNCHANGED <<variant, raceVars, fsVars, args, openaiAPIKey, query,
                   suggestedCommand, history, loadResult, keyVars, httpVars,
                   confirmPrompts, dispatchVars, stdout, ghostVars>>

\* the "y" branch with the history update moved into the success arm
RunCommandSkippingFailed ==
    /\ pc = "dispatch"
    /\ confirm = <<"y">>
    /\ \E out \in CommandOutputs, err \in BOOLEAN :
         /\ shellRuns' = shellRuns + 1
         /\ cmdOutput' = [output |-> out, err |-> err]
         /\ stdout' = IF err
                      THEN stdout \o <<"Command returned error", "Output:">>
                      ELSE Append(stdout, "Command output:")
         /\ history' = IF err THEN history
                       ELSE HistoryAdd(variant, history, query, suggestedCommand, out)
         /\ added' = Append(added, [query |-> query,
                                    command |-> suggestedCommand,
                                    output |-> out])
         /\ recorded' = history'
    /\ Exit(0, "")
    /\ UNCHANGED <<variant, raceVars, fsVars, args, openaiAPIKey, query,
                   suggestedCommand, confirm, loadResult, keyVars, httpVars,
                   confirmVars, clipCopies, clipErr, runs>>

\* main, case "y": runCommand, then the history updated
RunCommand ==
    /\ pc = "dispatch"
    /\ confirm = <<"y">>
    /\ \E out \in CommandOutputs, err \in BOOLEAN :
         /\ shellRuns' = shellRuns + 1
         /\ cmdOutput' = [output |-> out, err |-> err]
         /\ stdout' = IF err
                      THEN stdout \o <<"Command returned error", "Output:">>
                      ELSE Append(stdout, "Command output:")
         /\ history' = HistoryAdd(variant, history, query, suggestedCommand, out)
         /\ added' = Append(added, [query |-> query,
                                    command |-> suggestedCommand,
                                    output |-> out])
         /\ recorded' = history'
    /\ Exit(0, "")
    /\ UNCHANGED <<variant, raceVars, fsVars, args, openaiAPIKey, query,
                   suggestedCommand, confirm, loadResult, keyVars, httpVars,
                   confirmVars, clipCopies, clipErr, runs>>

\* copyToClipboard: whether it returns an error
ClipboardFails(goos, runOk) == goos \notin {"darwin", "linux", "windows"} \/ ~runOk

\* main, case "c"
CopyCommand ==
    /\ pc = "dispatch"
    /\ confirm = <<"c">>
    /\ \E goos \in Platforms, runOk \in BOOLEAN :
         /\ clipCopies' = clipCopies + 1
         /\ clipErr' = ClipboardFails(goos, runOk)
         /\ stdout' = IF ClipboardFails(goos, runOk)
                      THEN Append(stdout, "Command not executed.")
                      ELSE stdout \o <<"Command copied to clipboard!",
                                       "Command not executed.">>
    /\ Exit(0, "")
    /\ UNCHANGED <<variant, raceVars, fsVars, procVars, keyVars, httpVars, confirmVars,
                   shellRuns, cmdOutput, ghostVars>>

\* main, default
NotExecuted ==
    /\ pc = "dispatch"
    /\ confirm # <<"y">>
    /\ confirm # <<"c">>
    /\ stdout' = Append(stdout, "Command not executed.")
    /\ Exit(0, "")
    /\ UNCHANGED <<variant, raceVars, fsVars, procVars, keyVars, httpVars, confirmVars,
                   dispatchVars, ghostVars>>

Next ==
    \/ Start
    \/ InitConfigFiles
    \/ Cleanup
    \/ Usage
    \/ LoadKey
    \/ EnterKey
    \/ Suggest
    \/ ReadConfirm
    \/ RunCommand
    \/ CopyCommand
    \/ NotExecuted

Spec == Init /\ [][Next]_vars

(***************************************************************************)
(* The history tracker on its own: any sequence of adds.                   *)
(***************************************************************************)
TrackerAdds ==
    {[query |-> <<"list", SP, "files">>, command |-> <<"ls", SP, "-la">>,
      output |-> <<"file1", NL, "file2", NL>>],
     [query |-> <<"pwd">>, command |-> <<"pwd">>,
      output |-> Text(MaxWords + ExtraWords)]}

InitHistory ==
    /\ variant \in Variants
    /\ dirExists = FALSE
    /\ cfgFile = NoFile
    /\ storeLog = NoStoreOp
    /\ pc = "tracker"
    /\ args = <<>>
    /\ runs = 0
    /\ recorded = <<>>
    /\ racers = NoRace
    /\ wrote = <<>>
    /\ ProcessStart

\* one more add: the "y" branch's update of the history
AddStep ==
    /\ pc = "tracker"
    /\ Len(added) < MaxAdds
    /\ \E a \in TrackerAdds :
         /\ history' = HistoryAdd(variant, history, a.query, a.command, a.output)
         /\ added' = Append(added, a)
    /\ UNCHANGED <<variant, raceVars, fsVars, pc, args, openaiAPIKey, query,
                   suggestedCommand, confirm, exitCode, loadResult, keyVars,
                   httpVars, confirmVars, dispatchVars, stdout, fatal, runs,
                   recorded>>

NextHistory == AddStep

SpecHistory == InitHistory /\ [][NextHistory]_vars

(***************************************************************************)
(* Two invocations at once on a store without a credential.  Each runs     *)
(* main from loadAPIKey to the end of saveAPIKey; os.WriteFile is its two  *)
(* system calls, the open that truncates the file and the write at offset  *)
(* 0.  Here a key is spelled one byte per atom, so that an offset in the   *)
(* file counts the same bytes in both writers' texts.                      *)
(***************************************************************************)
RaceKeyLines == {<<"a", NL>>, <<"b", "c", NL>>, <<SP, "d", "e", NL>>}

\* write(2) of data at offset 0 of a file that holds old
WriteAtStart(old, data) ==
    data \o SubSeq(old, Len(data) + 1, Len(old))

InitRace ==
    /\ variant \in Variants
    /\ dirExists = TRUE
    /\ cfgFile = NoFile
    /\ storeLog = NoStoreOp
    /\ pc = "race"
    /\ args = <<"pwd">>
    /\ runs = 0
    /\ recorded = <<>>
    /\ racers = [p \in Racers |-> [pc |-> "load", key |-> <<>>]]
    /\ wrote = <<>>
    /\ ProcessStart

RaceRest ==
    UNCHANGED <<variant, dirExists, storeLog, pc, args, openaiAPIKey, query,
                suggestedCommand, confirm, history, exitCode, loadResult,
                keyVars, httpVars, confirmVars, dispatchVars, stdout, fatal,
                ghostVars>>

\* main: loadAPIKey, and the test that decides whether to ask for a key
RaceLoad(p) ==
    /\ racers[p].pc = "load"
    /\ LET r == LoadAPIKey(cfgFile, TRUE) IN
       racers' = [racers EXCEPT ![p].pc = IF NeedsKey(r) THEN "askKey" ELSE "done",
                                ![p].key = r.key]
    /\ UNCHANGED <<cfgFile, wrote>>
    /\ RaceRest

\* main: the key read from the terminal and trimmed
RaceEnterKey(p) ==
    /\ racers[p].pc = "askKey"
    /\ \E line \in RaceKeyLines :
         racers' = [racers EXCEPT ![p].pc = "open", ![p].key = TrimSpace(line)]
    /\ UNCHANGED <<cfgFile, wrote>>
    /\ RaceRest

\* os.WriteFile: OpenFile(name, O_WRONLY|O_CREATE|O_TRUNC, perm)
RaceOpen(p) ==
    /\ racers[p].pc = "open"
    /\ cfgFile' = EmptyFile
    /\ racers' = [racers EXCEPT ![p].pc = "write"]
    /\ UNCHANGED wrote
    /\ RaceRest

\* os.WriteFile: f.Write(data), then Close; saveAPIKey returns
RaceWrite(p) ==
    /\ racers[p].pc = "write"
    /\ cfgFile' = [exists |-> TRUE,
                   data |-> WriteAtStart(cfgFile.data, MarshalConfig(racers[p].key))]
    /\ wrote' = Append(wrote, p)
    /\ racers' = [racers EXCEPT ![p].pc = "done"]
    /\ RaceRest

NextRace ==
    \E p \in Racers :
        \/ RaceLoad(p)
        \/ RaceEnterKey(p)
        \/ RaceOpen(p)
        \/ RaceWrite(p)

SpecRace == InitRace /\ [][NextRace]_vars

(***************************************************************************)
(* The context of the Entry build as a function of the history list it is  *)
(* given: getCommandSuggestion applied to any list, and the truncation     *)
(* applied once more to its result.                                        *)
(***************************************************************************)
ContextEntries ==
    {[Query |-> <<"list", SP, "files">>, Response |-> <<"file1", NL, "file2", NL>>],
     [Query |-> <<"pwd">>, Response |-> Text(ContextWords \div 4)],
     [Query |-> <<"cat">>, Response |-> Text(ContextWords + ExtraWords)]}

HistoryLists == UNION {[1..k -> ContextEntries] : k \in 0..MaxEntries}

InitContext ==
    /\ variant = "Entry"
    /\ dirExists = FALSE
    /\ cfgFile = NoFile
    /\ storeLog = NoStoreOp
    /\ pc = "context"
    /\ args = <<>>
    /\ runs = 0
    /\ recorded = <<>>
    /\ racers = NoRace
    /\ wrote = <<>>
    /\ openaiAPIKey = <<>>
    /\ query = <<>>
    /\ suggestedCommand = <<>>
    /\ confirm = <<>>
    /\ history \in HistoryLists
    /\ exitCode = -1
    /\ loadResult = [err |-> "", key |-> <<>>]
    /\ keyPrompts = 0
    /\ httpRequests = 0
    /\ sentKey = <<>>
    /\ sentContext = <<>>
    /\ sentPrompt = <<>>
    /\ apiStatus = 0
    /\ apiAnswer = 0
    /\ confirmPrompts = 0
    /\ confirmLine = <<>>
    /\ shellRuns = 0
    /\ cmdOutput = NoOutput
    /\ clipCopies = 0
    /\ clipErr = FALSE
    /\ stdout = <<>>
    /\ fatal = ""
    /\ added = <<>>

ContextRest ==
    UNCHANGED <<variant, raceVars, fsVars, procVars, exitCode, keyVars,
                httpRequests, sentKey, sentPrompt, apiStatus, apiAnswer,
                confirmVars, dispatchVars, stdout, fatal, ghostVars>>

\* getCommandSuggestion: the context built from the list
BuildContext ==
    /\ pc = "context"
    /\ sentContext' = EntryContext(history)
    /\ pc' = "built"
    /\ ContextRest

\* truncateHistoryContext applied to a context it has already truncated
TruncateAgain ==
    /\ pc = "built"
    /\ sentContext' = TruncateHistoryContext(sentContext)
    /\ pc' = "again"
    /\ ContextRest

NextContext == BuildContext \/ TruncateAgain

SpecContext == InitContext /\ [][NextContext]_vars

(***************************************************************************)
(* Properties.                                                             *)
(***************************************************************************)
Min(a, b) == IF a <= b THEN a ELSE b
Range(f) == {f[i] : i \in DOMAIN f}

\* sub occurs in s as a run of consecutive atoms
Occurs(sub, s) ==
    \E i \in 0..(Len(s) - Len(sub)) : SubSeq(s, i + 1, i + Len(sub)) = sub

\* the two fields of a history entry, whichever build made it
FirstField(e) == IF variant = "Entry" THEN e.Query ELSE e.Command
SecondField(e) == IF variant = "Entry" THEN e.Response ELSE e.Output

Bound == IF variant = "Entry" THEN 5 ELSE 8
Budget == IF variant = "Entry" THEN 100 ELSE 160

Exited == pc = "exited"
Executed == Exited /\ shellRuns = 1

C2_OnlyExactInput ==
    (Exited /\ confirmLine # <<>>) =>
        /\ confirmLine = <<"y", NL>> => (shellRuns = 1 /\ Len(history) = 1)
        /\ confirmLine = <<"c", NL>> => (clipCopies = 1 /\ Len(history) = 0)
        /\ confirmLine \notin {<<"y", NL>>, <<"c", NL>>} =>
              (shellRuns = 0 /\ clipCopies = 0 /\ Len(history) = 0)

\* C2 amended: the input is lower-cased and stripped of surrounding blanks
\* first; if that gives "y" the command runs once and exactly one entry is
\* added, if it gives "c" the clipboard copy is called once and nothing is
\* added, and anything else neither runs nor copies nor adds.
C2_NormalizedInputDecides ==
    (Exited /\ confirmLine # <<>>) =>
        LET typed == TrimSpace(ToLower(confirmLine)) IN
        /\ typed = <<"y">> =>
              (shellRuns = 1 /\ clipCopies = 0 /\ Len(history) = 1
               /\ Len(added) = 1)
        /\ typed = <<"c">> =>
              (clipCopies = 1 /\ shellRuns = 0 /\ history = <<>>
               /\ added = <<>>)
        /\ typed \notin {<<"y">>, <<"c">>} =>
              (shellRuns = 0 /\ clipCopies = 0 /\ history = <<>>
               /\ added = <<>>)

\* C2 witness: an upper-case Y was typed and the command ran
C2_UpperCaseRuns ==
    Exited /\ confirmLine = <<"Y", NL>> /\ shellRuns = 1 /\ Len(history) = 1

\* C3 as claimed: what an executed command recorded in an earlier invocation
\* (its query or command, and its result) is part of the history context in
\* the prompt of a later invocation.
C3_HistoryPersists ==
    (httpRequests > 0 /\ shellRuns = 0 /\ recorded # <<>>) =>
        /\ Occurs(FirstField(recorded[Len(recorded)]), sentContext)
        /\ Occurs(SecondField(recorded[Len(recorded)]), sentContext)

\* C4: a response with a status other than 200 makes the suggestion step
\* fail with the upstream error, and the invocation ends with status 1
\* having shown no confirmation prompt, run nothing, copied nothing and
\* added no history entry.
C4_UpstreamErrorIsFatal ==
    (httpRequests > 0 /\ apiStatus \notin {0, 200}) =>
        /\ Exited
        /\ exitCode = 1
        /\ fatal = "Error getting command suggestion: error from OpenAI API"
        /\ confirmPrompts = 0
        /\ confirmLine = <<>>
        /\ shellRuns = 0
        /\ clipCopies = 0
        /\ history = <<>>
        /\ added = <<>>

\* C4 witness: the API answered 429 and the process is gone
C4_RateLimited == Exited /\ apiStatus = 429 /\ httpRequests = 1

HistoryMarkers ==
    {HistoryLabel, "<HISTORY>", "</HISTORY>", CommandHistoryLabel,
     "<COMMAND_HISTORY>", "</COMMAND_HISTORY>"}

\* C5 as claimed: with an empty history the context is the empty string and
\* the prompt holds no history label and no history tag.
C5_EmptyHistoryOmitted ==
    (httpRequests > 0 /\ shellRuns = 0 /\ history = <<>>) =>
        /\ sentContext = <<>>
        /\ Range(sentPrompt) \cap HistoryMarkers = {}

Scenario ==
    /\ Executed
    /\ query = <<"list", SP, "files">>
    /\ suggestedCommand = <<"ls", SP, "-la">>
    /\ cmdOutput.output = <<"file1", NL, "file2", NL>>

CleanupStep == pc = "args" /\ IsCleanup(args)
HoldsCredential(file) == file.exists /\ UnmarshalConfig(file.data).err = ""

JustLoaded == pc = "askKey" \/ (pc = "suggest" /\ keyPrompts = 0)
Readable == loadResult.err # "read"

\* C9 as claimed: after save(k), for any key k, load returns k; after
\* erase, load returns the not-found error; after erase and then save(k),
\* load returns k.
C9_RoundTripAnyKey ==
    (JustLoaded /\ Readable) =>
        /\ storeLog.last = "save" =>
              loadResult = [err |-> "", key |-> storeLog.key]
        /\ storeLog.last = "erase" => loadResult.err = "API key not found"

\* C9 amended: after save(k), load returns k for every key k that is valid
\* UTF-8; a byte of k that is not valid UTF-8 comes back as U+FFFD.  After
\* erase, load returns the not-found error; after erase and then save(k),
\* load returns k as after any save.
C9_RoundTripValidKeys ==
    (JustLoaded /\ Readable) =>
        /\ storeLog.last = "save" =>
              /\ loadResult.err = ""
              /\ Len(loadResult.key) = Len(storeLog.key)
              /\ \A i \in 1..Len(storeLog.key) :
                    loadResult.key[i] =
                       (IF storeLog.key[i] = BadByte THEN ReplacementChar
                        ELSE storeLog.key[i])
        /\ storeLog.last = "erase" => loadResult.err = "API key not found"

\* C9 witness: a key saved after an erase was loaded back
C9_SavedAfterEraseLoaded ==
    /\ JustLoaded
    /\ storeLog = [last |-> "save", key |-> <<"sk-2">>, afterErase |-> TRUE,
                   erases |-> 0]
    /\ loadResult = [err |-> "", key |-> <<"sk-2">>]

\* C10 as claimed: whenever the request is sent the key it carries is not
\* empty.
C10_KeyPresentWhenSent == httpRequests > 0 => sentKey # <<>>

\* C11: when the executed command fails (non-zero exit), the invocation
\* still ends with status 0 and no fatal message, the failure and the output
\* are printed, and the history gets the one entry a successful run with the
\* same output would have got: same fields, same cut to the last words.
C11_FailedRunRecorded ==
    (Exited /\ shellRuns = 1 /\ cmdOutput.err) =>
        /\ exitCode = 0
        /\ fatal = ""
        /\ Len(stdout) >= 2
        /\ stdout[Len(stdout) - 1] = "Command returned error"
        /\ stdout[Len(stdout)] = "Output:"
        /\ Len(history) = 1
        /\ Len(added) = 1
        /\ variant = "Entry" =>
              history[1] = [Query |-> query, Response |-> cmdOutput.output]
        /\ variant = "CommandHistory" =>
              /\ history[1].Command = suggestedCommand
              /\ Fields(history[1].Output) = LastN(Fields(cmdOutput.output), 160)
              /\ Len(Fields(cmdOutput.output)) <= 160 =>
                    history[1].Output = cmdOutput.output

\* C11 witness: a command that failed after printing two lines was recorded
C11_FailureRecorded ==
    /\ Exited
    /\ shellRuns = 1
    /\ cmdOutput = [output |-> <<"file1", NL, "file2", NL>>, err |-> TRUE]
    /\ Len(history) = 1
    /\ exitCode = 0

BothSaved == wrote \in {<<1, 2>>, <<2, 1>>} /\ \A p \in Racers : racers[p].pc = "done"

\* C19 as claimed: when two simultaneous invocations both found no
\* credential and both saved one, the file finally holds exactly the text
\* of the save whose write came last: the last writer's key, no mixture of
\* the two texts and no empty mapping.
C19_LastWriterWins ==
    BothSaved =>
        /\ cfgFile.exists
        /\ cfgFile.data = MarshalConfig(racers[wrote[2]].key)
        /\ UnmarshalConfig(cfgFile.data).err = ""

\* C12: in every invocation the shell execution and the clipboard copy are
\* each invoked at most once and never both, and one of them is invoked
\* only after a suggestion was obtained (one request, answered 200, the
\* command shown) and the one confirmation prompt was printed and answered;
\* the cleanup and usage paths invoke neither.
C12_DispatchOnceAfterConfirm ==
    /\ shellRuns <= 1
    /\ clipCopies <= 1
    /\ shellRuns + clipCopies <= 1
    /\ confirmPrompts <= 1
    /\ shellRuns + clipCopies = 1 =>
          /\ confirmPrompts = 1
          /\ confirmLine # <<>>
          /\ httpRequests = 1
          /\ apiStatus = 200
          /\ "Suggested command:" \in Range(stdout)
          /\ fatal = ""
    /\ (IsCleanup(args) \/ args = <<>>) => (shellRuns = 0 /\ clipCopies = 0)

\* C12 witness: the copy was made, once, after the prompt was answered "c"
C12_CopiedAfterConfirm ==
    /\ Exited
    /\ clipCopies = 1
    /\ shellRuns = 0
    /\ confirmPrompts = 1
    /\ confirmLine = <<"c", NL>>

\* C13 as claimed: a credential file that exists but cannot be read, or a
\* credential that cannot be written, ends the invocation with a non-zero
\* status; after the failed read no key prompt is printed, and after either
\* failure no request is sent and nothing is run or copied.
C13_ConfigIOErrorIsFatal ==
    /\ loadResult.err = "read" =>
          /\ Exited
          /\ exitCode = 1
          /\ keyPrompts = 0
          /\ httpRequests = 0
          /\ shellRuns = 0
          /\ clipCopies = 0
    /\ (pc # "askKey" /\ keyPrompts = 1 /\ storeLog.last = "savefail") =>
          /\ Exited
          /\ exitCode = 1
          /\ httpRequests = 0
          /\ shellRuns = 0
          /\ clipCopies = 0

SetupFailures ==
    {"Error initialising config: failed to get home directory",
     "Error initialising config: failed to create config directory"}
SuggestionFailures ==
    {"Error getting command suggestion: transport",
     "Error getting command suggestion: error from OpenAI API",
     "Error getting command suggestion: decode",
     "Error getting command suggestion: no valid response from OpenAI API"}

\* C14: when the home directory cannot be determined, the config directory
\* cannot be created or the suggestion call fails, the process ends with
\* status 1 having shown no confirmation prompt, run nothing, copied nothing
\* and added no history entry; every failed suggestion call ends that way.
C14_SetupFailureIsFatal ==
    /\ fatal \in SetupFailures \cup SuggestionFailures =>
          /\ Exited
          /\ exitCode = 1
          /\ confirmPrompts = 0
          /\ confirmLine = <<>>
          /\ shellRuns = 0
          /\ clipCopies = 0
          /\ history = <<>>
          /\ added = <<>>
    /\ fatal \in SetupFailures =>
          (keyPrompts = 0 /\ httpRequests = 0 /\ stdout = <<>>)
    /\ (apiAnswer # 0 /\ SuggestionResult(ApiResponses[apiAnswer]).err # "") =>
          (fatal \in SuggestionFailures /\ exitCode = 1)

\* C14 witness: the config directory could not be created
C14_MkdirFailed ==
    /\ Exited
    /\ exitCode = 1
    /\ fatal = "Error initialising config: failed to create config directory"
    /\ ~dirExists

\* C15: an invocation hands at most one request to the HTTP client and
\* never a second one: none before the suggestion step, exactly one once
\* that step has been taken, whether it was answered 200, answered with an
\* error status or not answered at all; the cleanup and usage paths send
\* none.
C15_OneRequest ==
    /\ httpRequests <= 1
    /\ pc \in {"idle", "init", "args", "askKey", "suggest"} => httpRequests = 0
    /\ pc \in {"confirm", "dispatch"} => httpRequests = 1
    /\ (apiAnswer # 0 \/ fatal \in SuggestionFailures \/ confirmPrompts > 0) =>
          httpRequests = 1
    /\ (IsCleanup(args) \/ args = <<>>) => (httpRequests = 0 /\ apiAnswer = 0)

\* C15 witness: the API answered 500 and the one request was not repeated
C15_FailedOnce ==
    /\ Exited
    /\ apiStatus = 500
    /\ httpRequests = 1
    /\ fatal = "Error getting command suggestion: error from OpenAI API"

\* C16: an invocation whose first argument is "cleanup" never loads a
\* credential, prints no key prompt and sends no request; unless the system
\* fails it (no home directory, a directory that cannot be created, a
\* removal that fails) it ends with status 0 and the success message,
\* leaving neither the configuration directory nor the credential file,
\* whatever the store held before: so also when the cleanup before it had
\* already removed everything.
C16_CleanupErases ==
    IsCleanup(args) =>
        /\ keyPrompts = 0
        /\ loadResult = [err |-> "", key |-> <<>>]
        /\ openaiAPIKey = <<>>
        /\ httpRequests = 0
        /\ confirmPrompts = 0
        /\ (Exited /\ fatal \notin SetupFailures /\ storeLog.last # "erasefail") =>
              /\ exitCode = 0
              /\ fatal = ""
              /\ stdout = <<"Configuration files removed successfully!">>
              /\ ~dirExists
              /\ ~cfgFile.exists
              /\ storeLog.last = "erase"
              /\ storeLog.erases >= 1

\* C16 witness: the third cleanup in a row has succeeded like the first two
C16_CleanedAgain ==
    /\ Exited
    /\ IsCleanup(args)
    /\ exitCode = 0
    /\ runs = 3
    /\ storeLog.erases = 3
    /\ ~dirExists
    /\ ~cfgFile.exists

\* what the program prints when nothing has gone wrong
RoutineMessages ==
    {"Enter your OpenAI API Key: ", "API key saved.", "Suggested command:",
     "Command not executed."}

\* C17 as claimed: when the clipboard copy fails, the user is told so (a
\* message other than the routine ones, or an error message), the process
\* ends normally, "Command not executed." is printed and no history entry
\* is added.
C17_CopyFailureReported ==
    (Exited /\ clipCopies = 1 /\ clipErr) =>
        /\ \/ fatal # ""
           \/ \E i \in DOMAIN stdout : stdout[i] \notin RoutineMessages
        /\ exitCode = 0
        /\ stdout[Len(stdout)] = "Command not executed."
        /\ history = <<>>
        /\ added = <<>>

\* the body is a JSON object with a string at choices[0].message.content
HasContent(b) ==
    /\ b.t = "obj"
    /\ "choices" \in DOMAIN b.v
    /\ b.v.choices.t = "arr"
    /\ Len(b.v.choices.v) > 0
    /\ b.v.choices.v[1].t = "obj"
    /\ "message" \in DOMAIN b.v.choices.v[1].v
    /\ b.v.choices.v[1].v.message.t = "obj"
    /\ "content" \in DOMAIN b.v.choices.v[1].v.message.v
    /\ b.v.choices.v[1].v.message.v.content.t = "str"
ContentOf(b) == b.v.choices.v[1].v.message.v.content.v
Answered200 ==
    apiAnswer # 0 /\ ~ApiResponses[apiAnswer].transport
    /\ ApiResponses[apiAnswer].status = 200

\* C18: after a 200 response with a string at choices[0].message.content
\* the suggestion is that string without its leading and trailing
\* whitespace (" ls -la " gives "ls -la") and the confirmation prompt is
\* shown; after any other 200 response (not JSON, no choices, choices empty
\* or not a list, no message, message not an object, no content, content
\* not a string) the invocation ends with status 1 on the suggestion error,
\* without a confirmation prompt, an execution or a copy.
C18_ContentOrFatal ==
    Answered200 =>
        LET b == ApiResponses[apiAnswer].body IN
        IF HasContent(b)
        THEN /\ suggestedCommand = TrimSpace(ContentOf(b))
             /\ ContentOf(b) = <<SP, "ls", SP, "-la", SP>> =>
                   suggestedCommand = <<"ls", SP, "-la">>
             /\ suggestedCommand = <<>> \/
                   (/\ suggestedCommand[1] \notin Whitespace
                    /\ suggestedCommand[Len(suggestedCommand)] \notin Whitespace)
             /\ confirmPrompts = 1
             /\ fatal \notin SuggestionFailures
        ELSE /\ Exited
             /\ exitCode = 1
             /\ fatal \in {"Error getting command suggestion: decode",
                           "Error getting command suggestion: no valid response from OpenAI API"}
             /\ suggestedCommand = <<>>
             /\ confirmPrompts = 0
             /\ confirmLine = <<>>
             /\ shellRuns = 0
             /\ clipCopies = 0
             /\ history = <<>>

\* C18 witness: the content " ls -la " came back and "ls -la" is shown
C18_TrimmedSuggestion ==
    /\ pc = "confirm"
    /\ Answered200
    /\ HasContent(ApiResponses[apiAnswer].body)
    /\ ContentOf(ApiResponses[apiAnswer].body) = <<SP, "ls", SP, "-la", SP>>
    /\ suggestedCommand = <<"ls", SP, "-la">>

\* the words of the entries of h from the i-th on, as they are rendered
RECURSIVE RenderedWords(_, _)
RenderedWords(h, i) ==
    IF i > Len(h) THEN <<>>
    ELSE <<"User:">> \o Fields(h[i].Query) \o <<"Bot:">> \o Fields(h[i].Response)
         \o RenderedWords(h, i + 1)

\* C20: for every history list given to the Entry build, the context put in
\* the prompt is made of the last 5 entries only, oldest first, and holds at
\* most 100 words: when those entries render to at most 100 words it is
\* their rendering unchanged, otherwise exactly its last 100 words joined by
\* single spaces; truncating the context once more changes nothing.
C20_ContextIsTrailingWords ==
    pc \in {"built", "again"} =>
        LET recent == LastN(history, 5)
            words == RenderedWords(recent, 1)
        IN /\ Len(Fields(sentContext)) <= 100
           /\ Fields(sentContext) = LastN(words, 100)
           /\ Len(words) <= 100 => sentContext = EntryLines(recent, 1)
           /\ Len(words) > 100 =>
                 /\ Len(sentContext) = 199
                 /\ \A i \in 1..199 :
                       sentContext[i] = IF i % 2 = 1
                                        THEN words[Len(words) - 100 + (i + 1) \div 2]
                                        ELSE SP

\* C20 witness: a list of more than 5 entries whose last 5 hold more than
\* 100 words was rendered and the result truncated again; the context
\* spans several of the last entries and nothing of the first
C20_LongListTruncatedTwice ==
    /\ pc = "again"
    /\ Len(history) > 5
    /\ history[1].Query = <<"cat">>
    /\ Len(RenderedWords(LastN(history, 5), 1)) > 100
    /\ Len(Fields(sentContext)) = 100
    /\ "User:" \in Range(sentContext)
    /\ "pwd" \in Range(sentContext)
    /\ "cat" \notin Range(sentContext)

====
